---- MODULE Spec2Model ----
(***************************************************************************)
(* A model of ObservableOperation (src/core/ObservableOperation.ts): the   *)
(* hot observable that merges an executor's result stream and a graph      *)
(* store watch into a stream of OperationState values.                     *)
(*                                                                         *)
(* The operation that is modelled is  { foo(arg: $arg) { a } } : the root  *)
(* entity holds one reference per value of $arg, every referenced entity   *)
(* holds the scalar a.  The graph store and the Observable primitive are   *)
(* not part of the source that is modelled here; they follow their         *)
(* documented contract.                                                    *)
(***************************************************************************)
EXTENDS Integers, Sequences, FiniteSets, TLC

(***************************************************************************)
(* Bounds.                                                                 *)
(***************************************************************************)
\* values of the variable $arg are 1..MaxVar; 0 is the variables object {}
MaxVar == 1
\* entity ids handed out by getDataID
NumIds == 2
\* values of the scalar a
MaxVal == 2
\* observers that ever subscribe
MaxObservers == 2
\* deferred deliveries (setTimeout callbacks) that may be pending at once
MaxTimers == 4
\* deliveries counted per observer
MaxDeliveries == 2

(***************************************************************************)
(* Value domains.                                                          *)
(***************************************************************************)
NoVariables == -1
VarSet == 0 .. MaxVar
Ids == 1 .. NumIds
Vals == 1 .. MaxVal
NoRef == 0
NoVal == 0
NoData == [id |-> 0, a |-> 0]
DataSet == [id : Ids, a : Vals]
ErrorsSet == {<<>>, <<"Yikes!">>}
ResultSet == [data : DataSet, errors : ErrorsSet]
Null == "null"
NoWatcher == [active |-> FALSE, variables |-> 0, initialData |-> NoData,
              previousData |-> NoData, pristine |-> FALSE]

InFlightMessage == "Cannot start a new execution when another execution is currently running."
MutationMessage == "Mutations may not be observed."
WatchingMessage == "Cannot start watching the graph when the graph is currently being watched."
VariablesMessage == "Operation variables changed without unsubscribing the graph watcher."
NoReferenceMessage == "No graph reference found for field 'foo'."
NoScalarMessage == "No scalar value found for field 'a'."
OtherReadMessage == "store failure"
ExecutorThrowsMessage == "executor failure"

VARIABLES
  opKind,        \* operation.operation of the observed operation
  state,         \* _state
  graph,         \* the snapshot of the graph store
  watcher,       \* _watcher with the closure of its next callback
  execution,     \* _execution !== null
  execVariables, \* the variables closed over by the execution's callbacks
  executor,      \* the executor's observable: "none", "active" or "completed"
  observers,     \* _observers
  subscribed,    \* observers that subscribed so far
  timers,        \* pending setTimeout callbacks, in firing order
  nexts,         \* number of next deliveries per observer
  fatal,         \* internal error thrown inside a callback
  call,          \* the public call made by the last step, what it threw and
                 \* the executor's observable stopExecuting found
  event,         \* the last executor event handled by the last step
  delivered,     \* the delivery made by the last step
  seen           \* per subscribed observer: the last state handed to it is
                 \* the object _state holds now

vars == <<opKind, state, graph, watcher, execution, execVariables, executor,
          observers, subscribed, timers, nexts, fatal, call, event,
          delivered, seen>>

NoCall == [op |-> "none", threw |-> "", invoked |-> 0, variables |-> 0, fault |-> FALSE,
           found |-> "none"]
NoDelivery == [obs |-> 0, kind |-> "none", value |-> <<>>]
NoneSeen == [o \in 1 .. MaxObservers |-> FALSE]
NoResult == [data |-> NoData, errors |-> <<>>]
NoEvent == [type |-> "none", hadNext |-> FALSE, result |-> NoResult, variables |-> 0]

Min(a, b) == IF a < b THEN a ELSE b

(***************************************************************************)
(* The graph store: write, read and watch.                                 *)
(***************************************************************************)
EmptyGraph == [refs |-> [k \in VarSet |-> NoRef], scal |-> [i \in Ids |-> NoVal]]

\* the storage key of foo(arg: $arg): the argument with the variable
\* substituted; absent variables and {} leave the argument undefined
FieldStorageKey(variables) == IF variables = NoVariables THEN 0 ELSE variables

RefKey(k) == <<"ref", k>>
ScalarKey(i) == <<"scal", i>>

\* Read returning what it found when the scalar a is absent
ReadReturnsPartial(g, variables, previousData) ==
  LET k == FieldStorageKey(variables)
      ref == g.refs[k]
  IN IF ref = NoRef
     THEN [ok |-> FALSE, partialRead |-> TRUE, stale |-> FALSE, data |-> NoData,
           message |-> NoReferenceMessage]
     ELSE LET stale == previousData # NoData /\ previousData.id # ref
              ent == IF stale THEN previousData.id ELSE ref
          IN [ok |-> TRUE, partialRead |-> FALSE, stale |-> stale,
              data |-> [id |-> ent, a |-> g.scal[ent]], message |-> ""]

\* read({id, selectionSet, variables, previousData})
Read(g, variables, previousData) ==
  LET k == FieldStorageKey(variables)
      ref == g.refs[k]
  IN IF ref = NoRef
     THEN [ok |-> FALSE, partialRead |-> TRUE, stale |-> FALSE, data |-> NoData,
           message |-> NoReferenceMessage]
     ELSE LET stale == previousData # NoData /\ previousData.id # ref
              ent == IF stale THEN previousData.id ELSE ref
          IN IF g.scal[ent] = NoVal
             THEN IF stale
                  THEN [ok |-> TRUE, partialRead |-> FALSE, stale |-> TRUE, data |-> previousData,
                        message |-> ""]
                  ELSE [ok |-> FALSE, partialRead |-> TRUE, stale |-> FALSE, data |-> NoData,
                        message |-> NoScalarMessage]
             ELSE [ok |-> TRUE, partialRead |-> FALSE, stale |-> stale,
                   data |-> [id |-> ent, a |-> g.scal[ent]], message |-> ""]

\* the (entity, storage key) pairs a read visits
ReadPlan(g, variables, previousData) ==
  LET k == FieldStorageKey(variables)
      ref == g.refs[k]
      stale == previousData # NoData /\ previousData.id # ref
      ent == IF stale THEN previousData.id ELSE ref
  IN {RefKey(k)} \cup (IF ref = NoRef THEN {} ELSE {ScalarKey(ent)})

\* write({id, selectionSet, variables, data}) of the selection
\* { foo(arg: $arg) { a } } at the root: the new snapshot, the write-back
\* projection and the change journal
Write(g, id, variables, data) ==
  LET k == FieldStorageKey(variables)
      g2 == [refs |-> [g.refs EXCEPT ![k] = data.id],
             scal |-> [g.scal EXCEPT ![data.id] = data.a]]
  IN [graph |-> g2,
      data |-> Read(g2, variables, NoData).data,
      journal |-> (IF g.refs[k] # data.id THEN {RefKey(k)} ELSE {})
                  \cup (IF g.scal[data.id] # data.a THEN {ScalarKey(data.id)} ELSE {})]

\* write({id: <entity>, selectionSet: { a }, data}) at an entity
WriteEntity(g, id, a) ==
  [graph |-> [g EXCEPT !.scal[id] = a],
   data |-> [id |-> id, a |-> a],
   journal |-> IF g.scal[id] # a THEN {ScalarKey(id)} ELSE {}]

\* write({id: 'query', selectionSet: { foo(arg: $arg) { b } }, data}) with a
\* field b outside the operation's selection: foo is pointed at the entity id
\* and nothing is said about its a
WriteRef(g, variables, id) ==
  LET k == FieldStorageKey(variables)
  IN [graph |-> [g EXCEPT !.refs[k] = id],
      journal |-> IF g.refs[k] # id THEN {RefKey(k)} ELSE {}]

(***************************************************************************)
(* The operation.  W is the operation together with the graph it uses and  *)
(* the executor observable it is subscribed to.                            *)
(***************************************************************************)
W == [opKind |-> opKind, state |-> state, graph |-> graph, watcher |-> watcher,
      execution |-> execution, execVariables |-> execVariables,
      executor |-> executor, observers |-> observers, timers |-> timers,
      fatal |-> fatal, threw |-> "", invoked |-> 0, event |-> NoEvent,
      seen |-> seen]

RootID(w) == IF w.opKind = "mutation" THEN Null ELSE w.opKind

InitialState == [loading |-> FALSE, executing |-> FALSE, variables |-> 0,
                 canonical |-> FALSE, stale |-> FALSE, errors |-> <<>>,
                 data |-> NoData]

\* UpdateState whose deliveries do not test that their state is still current
UpdateStateKeepsPending(w, partialState) ==
  LET nextState == [f \in DOMAIN w.state |->
                      IF f \in DOMAIN partialState THEN partialState[f] ELSE w.state[f]]
      scheduled == [i \in 1 .. Len(w.observers) |->
                      [kind |-> "state", obs |-> w.observers[i], current |-> TRUE,
                       state |-> <<nextState>>]]
  IN [w EXCEPT !.state = nextState, !.timers = w.timers \o scheduled,
               !.seen = NoneSeen]

\* _updateState(partialState); a callback whose state is no longer this._state
\* never uses the state it holds, which is dropped here
UpdateState(w, partialState) ==
  LET nextState == [f \in DOMAIN w.state |->
                      IF f \in DOMAIN partialState THEN partialState[f] ELSE w.state[f]]
      superseded == [i \in 1 .. Len(w.timers) |->
                      IF w.timers[i].kind = "state"
                      THEN [w.timers[i] EXCEPT !.current = FALSE, !.state = <<>>]
                      ELSE w.timers[i]]
      scheduled == [i \in 1 .. Len(w.observers) |->
                      [kind |-> "state", obs |-> w.observers[i], current |-> TRUE,
                       state |-> <<nextState>>]]
  IN [w EXCEPT !.state = nextState, !.timers = superseded \o scheduled,
               !.seen = NoneSeen]

\* _error(error)
Error(w) ==
  [w EXCEPT !.timers = w.timers \o [i \in 1 .. Len(w.observers) |->
              [kind |-> "error", obs |-> w.observers[i], current |-> TRUE,
               state |-> <<>>]]]

\* _stopWatching()
StopWatching(w) == [w EXCEPT !.watcher = NoWatcher]

\* WatcherNext ending the loading state too
WatcherNextResetsLoading(w, variables, identical, result) ==
  IF variables # w.state.variables
  THEN [w EXCEPT !.fatal = VariablesMessage]
  ELSE IF identical /\ result.stale = FALSE
       THEN w
       ELSE UpdateState(w, [loading |-> FALSE, canonical |-> FALSE,
                            stale |-> result.stale, data |-> result.data])

\* WatcherNext skipping the initial data also when the result is stale
WatcherNextSkipsInitialData(w, variables, identical, result) ==
  IF variables # w.state.variables
  THEN [w EXCEPT !.fatal = VariablesMessage]
  ELSE IF identical
       THEN w
       ELSE UpdateState(w, [canonical |-> FALSE, stale |-> result.stale,
                            data |-> result.data])

\* WatcherNext leaving canonical as it is
WatcherNextKeepsCanonical(w, variables, identical, result) ==
  IF variables # w.state.variables
  THEN [w EXCEPT !.fatal = VariablesMessage]
  ELSE IF identical /\ result.stale = FALSE
       THEN w
       ELSE UpdateState(w, [stale |-> result.stale, data |-> result.data])

\* the next callback _watch() hands to graph.watch
WatcherNext(w, variables, identical, result) ==
  IF variables # w.state.variables
  THEN [w EXCEPT !.fatal = VariablesMessage]
  ELSE IF identical /\ result.stale = FALSE
       THEN w
       ELSE UpdateState(w, [canonical |-> FALSE, stale |-> result.stale,
                            data |-> result.data])

\* one emission of the graph watch: re-read with the previously emitted data
\* as previousData; a partial read suppresses the emission
WatchEmit(w) ==
  LET result == Read(w.graph, w.watcher.variables, w.watcher.previousData)
  IN IF ~result.ok
     THEN w
     ELSE WatcherNext([w EXCEPT !.watcher.previousData = result.data],
                      w.watcher.variables,
                      w.watcher.pristine /\ result.data = w.watcher.initialData,
                      result)

\* Watch watching under the variables the operation was constructed with
WatchInitialVariables(w) ==
  IF RootID(w) = Null
  THEN w
  ELSE IF w.watcher.active
       THEN [w EXCEPT !.fatal = WatchingMessage]
       ELSE WatchEmit([w EXCEPT !.watcher =
                         [active |-> TRUE, variables |-> InitialState.variables,
                          initialData |-> w.state.data,
                          previousData |-> w.state.data, pristine |-> TRUE]])

\* _watch()
Watch(w) ==
  IF RootID(w) = Null
  THEN w
  ELSE IF w.watcher.active
       THEN [w EXCEPT !.fatal = WatchingMessage]
       ELSE WatchEmit([w EXCEPT !.watcher =
                         [active |-> TRUE, variables |-> w.state.variables,
                          initialData |-> w.state.data,
                          previousData |-> w.state.data, pristine |-> TRUE]])

\* the graph store notifies the watch of a write with the given change journal;
\* the re-read builds a new object, except that a stale read which refreshes
\* no leaf returns the previousData it was given
Notify(w, before, journal) ==
  IF ~w.watcher.active
  THEN w
  ELSE IF ReadPlan(before, w.watcher.variables, w.watcher.previousData) \cap journal = {}
       THEN w
       ELSE LET result == Read(w.graph, w.watcher.variables, w.watcher.previousData)
                same == /\ w.watcher.pristine
                        /\ result.ok
                        /\ result.stale
                        /\ result.data = w.watcher.previousData
            IN WatchEmit(IF same
                         THEN w
                         ELSE [w EXCEPT !.watcher.pristine = FALSE,
                                        !.watcher.initialData = NoData])

(***************************************************************************)
(* The executor.  An executor event is a next with a result, an error or a *)
(* complete; a script is what the executor emits synchronously inside      *)
(* subscribe, before execute returns.                                      *)
(***************************************************************************)
NextEvent(result) == [type |-> "next", result |-> result]
ErrorEvent == [type |-> "error", result |-> NoResult]
CompleteEvent == [type |-> "complete", result |-> NoResult]

\* ExecutionNext ending the executing state with the result
ExecutionNextEndsExecuting(w, variables, result) ==
  LET w1 == StopWatching(w)
  IN IF Len(result.errors) = 0
     THEN LET written == Write(w1.graph, RootID(w1), NoVariables, result.data)
              w2 == [w1 EXCEPT !.graph = written.graph]
              w3 == UpdateState(w2, [loading |-> FALSE, executing |-> FALSE,
                                     variables |-> variables,
                                     canonical |-> TRUE, stale |-> FALSE,
                                     errors |-> result.errors, data |-> written.data])
          IN Watch(w3)
     ELSE UpdateState(w1, [loading |-> FALSE, executing |-> FALSE,
                           variables |-> variables,
                           canonical |-> TRUE, stale |-> FALSE,
                           errors |-> result.errors, data |-> result.data])

\* ExecutionNext not stopping the watch before it handles the result
ExecutionNextKeepsWatch(w, variables, result) ==
  IF Len(result.errors) = 0
  THEN LET written == Write(w.graph, RootID(w), NoVariables, result.data)
           w2 == [w EXCEPT !.graph = written.graph]
           w3 == UpdateState(w2, [loading |-> FALSE, variables |-> variables,
                                  canonical |-> TRUE, stale |-> FALSE,
                                  errors |-> result.errors, data |-> written.data])
       IN Watch(w3)
  ELSE UpdateState(w, [loading |-> FALSE, variables |-> variables,
                       canonical |-> TRUE, stale |-> FALSE,
                       errors |-> result.errors, data |-> result.data])

\* ExecutionNext writing the data of a result that has errors too
ExecutionNextAlwaysWrites(w, variables, result) ==
  LET w1 == StopWatching(w)
      written == Write(w1.graph, RootID(w1), NoVariables, result.data)
      w2 == [w1 EXCEPT !.graph = written.graph]
      w3 == UpdateState(w2, [loading |-> FALSE, variables |-> variables,
                             canonical |-> TRUE, stale |-> FALSE,
                             errors |-> result.errors, data |-> written.data])
  IN IF Len(result.errors) = 0 THEN Watch(w3) ELSE w3

\* the next callback of execute
ExecutionNext(w, variables, result) ==
  LET w1 == StopWatching(w)
  IN IF Len(result.errors) = 0
     THEN LET written == Write(w1.graph, RootID(w1), NoVariables, result.data)
              w2 == [w1 EXCEPT !.graph = written.graph]
              w3 == UpdateState(w2, [loading |-> FALSE, variables |-> variables,
                                     canonical |-> TRUE, stale |-> FALSE,
                                     errors |-> result.errors, data |-> written.data])
          IN Watch(w3)
     ELSE UpdateState(w1, [loading |-> FALSE, variables |-> variables,
                           canonical |-> TRUE, stale |-> FALSE,
                           errors |-> result.errors, data |-> result.data])

\* ExecutionError ending the execution as a completion does
ExecutionErrorEndsExecution(w) ==
  UpdateState(Error([w EXCEPT !.executor = "completed", !.execVariables = 0]),
              [loading |-> FALSE, executing |-> FALSE])

\* the error callback of execute
ExecutionError(w) == Error(w)

\* ExecutionComplete resetting executing alone
ExecutionCompleteKeepsLoading(w) ==
  UpdateState([w EXCEPT !.executor = "completed", !.execVariables = 0],
              [executing |-> FALSE])

\* the complete callback of execute
ExecutionComplete(w) ==
  UpdateState([w EXCEPT !.executor = "completed", !.execVariables = 0],
              [loading |-> FALSE, executing |-> FALSE])

\* the executor's observable calls the callback of an event
ExecutorEvent(w, e) ==
  LET handled == [w EXCEPT !.event =
                    [type |-> e.type,
                     hadNext |-> w.event.hadNext \/ e.type = "next",
                     result |-> IF e.type = "next" THEN e.result ELSE w.event.result,
                     variables |-> w.execVariables]]
  IN CASE e.type = "next" -> ExecutionNext(handled, w.execVariables, e.result)
       [] e.type = "error" -> ExecutionError(handled)
       [] e.type = "complete" -> ExecutionComplete(handled)

RECURSIVE RunScript(_, _)
RunScript(w, script) ==
  IF script = <<>>
  THEN w
  ELSE RunScript(ExecutorEvent(w, Head(script)), Tail(script))

\* ExecuteOp without the check for a running execution
ExecuteOpUnguarded(w, variables, script) ==
  LET w1 == UpdateState(w, [loading |-> TRUE, executing |-> TRUE])
      w2 == [w1 EXCEPT !.invoked = w.invoked + 1,
                       !.execVariables = variables,
                       !.executor = "active"]
      w3 == RunScript(w2, script)
  IN [w3 EXCEPT !.execution = TRUE]

\* ExecuteOp putting the variables of the call into the loading state
ExecuteOpSetsVariables(w, variables, script) ==
  IF w.execution
  THEN [w EXCEPT !.threw = InFlightMessage]
  ELSE LET w1 == UpdateState(w, [loading |-> TRUE, executing |-> TRUE,
                                 variables |-> variables])
           w2 == [w1 EXCEPT !.invoked = w.invoked + 1,
                            !.execVariables = variables,
                            !.executor = "active"]
           w3 == RunScript(w2, script)
       IN [w3 EXCEPT !.execution = TRUE]

\* ExecuteOp starting from a state without the previous result
ExecuteOpClearsData(w, variables, script) ==
  IF w.execution
  THEN [w EXCEPT !.threw = InFlightMessage]
  ELSE LET w1 == UpdateState(w, [loading |-> TRUE, executing |-> TRUE,
                                 canonical |-> FALSE, stale |-> FALSE,
                                 errors |-> <<>>, data |-> NoData])
           w2 == [w1 EXCEPT !.invoked = w.invoked + 1,
                            !.execVariables = variables,
                            !.executor = "active"]
           w3 == RunScript(w2, script)
       IN [w3 EXCEPT !.execution = TRUE]

\* ExecuteOp not asking the executor again for the variables of the state
ExecuteOpSkipsUnchanged(w, variables, script) ==
  IF w.execution
  THEN [w EXCEPT !.threw = InFlightMessage]
  ELSE IF variables = w.state.variables /\ w.state.data # NoData
       THEN w
       ELSE LET w1 == UpdateState(w, [loading |-> TRUE, executing |-> TRUE])
                w2 == [w1 EXCEPT !.invoked = w.invoked + 1,
                                 !.execVariables = variables,
                                 !.executor = "active"]
                w3 == RunScript(w2, script)
            IN [w3 EXCEPT !.execution = TRUE]

\* execute(variables)
ExecuteOp(w, variables, script) ==
  IF w.execution
  THEN [w EXCEPT !.threw = InFlightMessage]
  ELSE LET w1 == UpdateState(w, [loading |-> TRUE, executing |-> TRUE])
           w2 == [w1 EXCEPT !.invoked = w.invoked + 1,
                            !.execVariables = variables,
                            !.executor = "active"]
           w3 == RunScript(w2, script)
       IN [w3 EXCEPT !.execution = TRUE]

\* StopExecutingOp keeping the handle of the execution it unsubscribed from
StopExecutingOpKeepsHandle(w) ==
  IF w.execution
  THEN UpdateState([w EXCEPT !.executor = "none", !.execVariables = 0],
                   [loading |-> FALSE, executing |-> FALSE])
  ELSE w

\* execute(variables) when the executor function throws instead of returning
\* an observable: the exception leaves execute before _execution is assigned
ExecuteOpThrowing(w, variables) ==
  IF w.execution
  THEN [w EXCEPT !.threw = InFlightMessage]
  ELSE LET w1 == UpdateState(w, [loading |-> TRUE, executing |-> TRUE])
       IN [w1 EXCEPT !.invoked = w.invoked + 1, !.threw = ExecutorThrowsMessage]

\* StopExecutingOp dropping the handle without unsubscribing from the executor
StopExecutingOpKeepsSubscription(w) ==
  IF w.execution
  THEN UpdateState([w EXCEPT !.execution = FALSE],
                   [loading |-> FALSE, executing |-> FALSE])
  ELSE w

\* stopExecuting()
StopExecutingOp(w) ==
  IF w.execution
  THEN UpdateState([w EXCEPT !.execution = FALSE, !.executor = "none",
                             !.execVariables = 0],
                   [loading |-> FALSE, executing |-> FALSE])
  ELSE w

\* MaybeExecuteOp leaving the watch as it is after a successful read
MaybeExecuteOpKeepsWatch(w, variables, fault, script) ==
  IF w.execution
  THEN [w EXCEPT !.threw = InFlightMessage]
  ELSE LET result == Read(w.graph, variables, w.state.data)
       IN IF fault
          THEN ExecuteOp(w, variables, script)
          ELSE IF result.ok
               THEN UpdateState(w, [variables |-> variables, canonical |-> FALSE,
                                    stale |-> result.stale, data |-> result.data])
               ELSE [w EXCEPT !.threw = result.message]

\* the state update of maybeExecute with what it read from the store
MaybeExecuteRead(w, variables, result) ==
  UpdateState(w, [variables |-> variables, canonical |-> FALSE,
                  stale |-> result.stale, data |-> result.data])

\* MaybeExecuteOp restarting the watch before it updates the state
MaybeExecuteOpWatchesFirst(w, variables, fault, script) ==
  IF w.execution
  THEN [w EXCEPT !.threw = InFlightMessage]
  ELSE IF RootID(w) = Null
       THEN ExecuteOp(w, variables, script)
       ELSE LET result == Read(w.graph, variables, w.state.data)
            IN IF fault
               THEN ExecuteOp(w, variables, script)
               ELSE IF result.ok
                    THEN MaybeExecuteRead(Watch(StopWatching(w)), variables, result)
                    ELSE [w EXCEPT !.threw = result.message]

\* maybeExecute(variables); fault says that the store fails with an error
\* that is not a partial read error
MaybeExecuteOp(w, variables, fault, script) ==
  IF w.execution
  THEN [w EXCEPT !.threw = InFlightMessage]
  ELSE IF RootID(w) = Null
       THEN ExecuteOp(w, variables, script)
       ELSE LET result == Read(w.graph, variables, w.state.data)
            IN IF fault
               THEN ExecuteOp(w, variables, script)
               ELSE IF result.ok
                    THEN Watch(StopWatching(MaybeExecuteRead(w, variables, result)))
                    ELSE [w EXCEPT !.threw = result.message]

\* Construct registering no store watch
ConstructWithoutWatch(kind) ==
  [opKind |-> kind, state |-> InitialState, graph |-> EmptyGraph,
   watcher |-> NoWatcher, execution |-> FALSE, execVariables |-> 0,
   executor |-> "none", observers |-> <<>>, timers |-> <<>>,
   fatal |-> "", threw |-> "", invoked |-> 0, event |-> NoEvent,
   seen |-> NoneSeen]

\* the constructor
Construct(kind) ==
  Watch([opKind |-> kind, state |-> InitialState, graph |-> EmptyGraph,
         watcher |-> NoWatcher, execution |-> FALSE, execVariables |-> 0,
         executor |-> "none", observers |-> <<>>, timers |-> <<>>,
         fatal |-> "", threw |-> "", invoked |-> 0, event |-> NoEvent,
         seen |-> NoneSeen])

(***************************************************************************)
(* The state machine.                                                      *)
(***************************************************************************)
\* the variables after an operation that leaves the operation in w
Becomes(w) ==
  /\ Len(w.timers) <= MaxTimers
  /\ opKind' = w.opKind
  /\ state' = w.state
  /\ graph' = w.graph
  /\ watcher' = w.watcher
  /\ execution' = w.execution
  /\ execVariables' = w.execVariables
  /\ executor' = w.executor
  /\ observers' = w.observers
  /\ timers' = w.timers
  /\ fatal' = w.fatal
  /\ event' = w.event
  /\ seen' = w.seen

SyncResults == {r \in ResultSet : r.data = [id |-> 1, a |-> 1]}
SyncScripts ==
  {<<>>, <<CompleteEvent>>, <<ErrorEvent>>, <<ErrorEvent, CompleteEvent>>}
    \cup {<<NextEvent(r)>> : r \in SyncResults}
    \cup {<<NextEvent(r), CompleteEvent>> : r \in SyncResults}

\* the variables a caller passes: a variables object or nothing
Arguments == VarSet \cup {NoVariables}
Default(argument) == IF argument = NoVariables THEN state.variables ELSE argument

InitKind(kind) ==
  LET w == Construct(kind)
  IN /\ opKind = w.opKind
     /\ state = w.state
     /\ graph = w.graph
     /\ watcher = w.watcher
     /\ execution = w.execution
     /\ execVariables = w.execVariables
     /\ executor = w.executor
     /\ observers = w.observers
     /\ timers = w.timers
     /\ fatal = w.fatal
     /\ event = w.event
     /\ seen = w.seen
     /\ subscribed = 0
     /\ nexts = [o \in 1 .. MaxObservers |-> 0]
     /\ call = [op |-> "constructor", threw |-> w.threw, invoked |-> 0,
               variables |-> 0, fault |-> FALSE, found |-> "none"]
     /\ delivered = NoDelivery

Init == \E kind \in {"query", "mutation"} : InitKind(kind)

\* the scripts an executor may run when a call invokes it
ScriptsFor(invokes) == IF invokes THEN SyncScripts ELSE {<<>>}

\* execute(argument) with one of the given arguments
Execute(arguments) ==
  \E argument \in arguments :
    \E script \in ScriptsFor(~execution) :
      LET w == ExecuteOp(W, Default(argument), script)
      IN /\ Becomes(w)
         /\ call' = [op |-> "execute", threw |-> w.threw, invoked |-> w.invoked,
                     variables |-> Default(argument), fault |-> FALSE,
                     found |-> "none"]
         /\ delivered' = NoDelivery
         /\ UNCHANGED <<subscribed, nexts>>

\* execute(argument) with an executor function that throws
ExecuteThrows(arguments) ==
  \E argument \in arguments :
    LET w == ExecuteOpThrowing(W, Default(argument))
    IN /\ Becomes(w)
       /\ call' = [op |-> "execute", threw |-> w.threw, invoked |-> w.invoked,
                   variables |-> Default(argument), fault |-> FALSE,
                   found |-> "none"]
       /\ delivered' = NoDelivery
       /\ UNCHANGED <<subscribed, nexts>>

\* maybeExecute(argument) with one of the given arguments
MaybeExecute(arguments) ==
  \E argument \in arguments, fault \in BOOLEAN :
    \E script \in ScriptsFor(MaybeExecuteOp(W, Default(argument), fault, <<>>).invoked > 0) :
      LET w == MaybeExecuteOp(W, Default(argument), fault, script)
      IN /\ Becomes(w)
         /\ call' = [op |-> "maybeExecute", threw |-> w.threw, invoked |-> w.invoked,
                     variables |-> Default(argument), fault |-> fault,
                     found |-> "none"]
         /\ delivered' = NoDelivery
         /\ UNCHANGED <<subscribed, nexts>>

StopExecuting ==
  /\ Becomes(StopExecutingOp(W))
  /\ call' = [op |-> "stopExecuting", threw |-> "", invoked |-> 0, variables |-> 0,
              fault |-> FALSE, found |-> IF execution THEN executor ELSE "none"]
  /\ delivered' = NoDelivery
  /\ UNCHANGED <<subscribed, nexts>>

\* the executor emits one of the given results, an error or its completion in
\* a later turn
ExecutorEmits(results) ==
  /\ executor = "active"
  /\ \E e \in {NextEvent(r) : r \in results} \cup {ErrorEvent, CompleteEvent} :
       Becomes(ExecutorEvent(W, e))
  /\ call' = NoCall
  /\ delivered' = NoDelivery
  /\ UNCHANGED <<subscribed, nexts>>

\* another writer writes { foo(arg: v) { a } } at the root
GraphWrite(variablesSet, dataSet) ==
  \E variables \in variablesSet, data \in dataSet :
    LET written == Write(graph, "query", variables, data)
    IN /\ Becomes(Notify([W EXCEPT !.graph = written.graph], graph, written.journal))
       /\ call' = NoCall
       /\ delivered' = NoDelivery
       /\ UNCHANGED <<subscribed, nexts>>

\* another writer writes { a } at an entity
GraphWriteEntity(dataSet) ==
  \E data \in dataSet :
    LET written == WriteEntity(graph, data.id, data.a)
    IN /\ Becomes(Notify([W EXCEPT !.graph = written.graph], graph, written.journal))
       /\ call' = NoCall
       /\ delivered' = NoDelivery
       /\ UNCHANGED <<subscribed, nexts>>

\* another writer points foo(arg: v) at an entity without writing its a
GraphWriteRef(variablesSet, ids) ==
  \E variables \in variablesSet, id \in ids :
    LET written == WriteRef(graph, variables, id)
    IN /\ Becomes(Notify([W EXCEPT !.graph = written.graph], graph, written.journal))
       /\ call' = NoCall
       /\ delivered' = NoDelivery
       /\ UNCHANGED <<subscribed, nexts>>

\* Subscribe without the priming emission
SubscribeWithoutPriming ==
  /\ subscribed < MaxObservers
  /\ subscribed' = subscribed + 1
  /\ Becomes([W EXCEPT !.observers = Append(observers, subscribed + 1)])
  /\ call' = NoCall
  /\ delivered' = NoDelivery
  /\ UNCHANGED nexts

\* subscribe(observer): _onSubscribe
Subscribe ==
  /\ subscribed < MaxObservers
  /\ subscribed' = subscribed + 1
  /\ Becomes([W EXCEPT !.timers = Append(timers, [kind |-> "prime", obs |-> subscribed + 1,
                                                  current |-> TRUE, state |-> <<>>]),
                       !.observers = Append(observers, subscribed + 1)])
  /\ call' = NoCall
  /\ delivered' = NoDelivery
  /\ UNCHANGED nexts

\* the function _onSubscribe returns
Unsubscribe ==
  \E i \in 1 .. Len(observers) :
    /\ Becomes([W EXCEPT !.observers = SubSeq(observers, 1, i - 1)
                                        \o SubSeq(observers, i + 1, Len(observers)),
                         !.seen[observers[i]] = FALSE])
    /\ call' = NoCall
    /\ delivered' = NoDelivery
    /\ UNCHANGED <<subscribed, nexts>>

\* Fire delivering the state a callback holds without the test that it is
\* still the current one
FireDeliversSuperseded ==
  /\ timers # <<>>
  /\ LET timer == Head(timers)
         delivers == timer.kind = "prime" \/ timer.kind = "state"
     IN /\ Becomes([W EXCEPT !.timers = Tail(timers),
                             !.seen[timer.obs] =
                               IF delivers /\ \E i \in 1 .. Len(observers) :
                                                observers[i] = timer.obs
                               THEN TRUE ELSE @])
        /\ delivered' = IF delivers
                        THEN [obs |-> timer.obs, kind |-> "next",
                              value |-> IF timer.kind = "prime" THEN <<state>>
                                        ELSE timer.state]
                        ELSE IF timer.kind = "error"
                             THEN [obs |-> timer.obs, kind |-> "error", value |-> <<>>]
                             ELSE NoDelivery
        /\ nexts' = IF delivers
                    THEN [nexts EXCEPT ![timer.obs] = Min(@ + 1, MaxDeliveries)]
                    ELSE nexts
  /\ call' = NoCall
  /\ UNCHANGED subscribed

\* the oldest pending setTimeout callback runs
Fire ==
  /\ timers # <<>>
  /\ LET timer == Head(timers)
         delivers == timer.kind = "prime" \/ (timer.kind = "state" /\ timer.current)
     IN /\ Becomes([W EXCEPT !.timers = Tail(timers),
                             !.seen[timer.obs] =
                               IF delivers /\ \E i \in 1 .. Len(observers) :
                                                observers[i] = timer.obs
                               THEN TRUE ELSE @])
        /\ delivered' = IF delivers
                        THEN [obs |-> timer.obs, kind |-> "next",
                              value |-> IF timer.kind = "prime" THEN <<state>>
                                        ELSE timer.state]
                        ELSE IF timer.kind = "error"
                             THEN [obs |-> timer.obs, kind |-> "error", value |-> <<>>]
                             ELSE NoDelivery
        /\ nexts' = IF delivers
                    THEN [nexts EXCEPT ![timer.obs] = Min(@ + 1, MaxDeliveries)]
                    ELSE nexts
  /\ call' = NoCall
  /\ UNCHANGED subscribed

Next ==
  \/ Execute(Arguments)
  \/ ExecuteThrows(Arguments)
  \/ MaybeExecute(Arguments)
  \/ StopExecuting
  \/ ExecutorEmits(ResultSet)
  \/ GraphWrite(VarSet, DataSet)
  \/ GraphWriteEntity(DataSet)
  \/ GraphWriteRef(VarSet, Ids)
  \/ Subscribe
  \/ Unsubscribe
  \/ Fire

Spec == Init /\ [][Next]_vars

\* the operation of a query nobody subscribes to
NextCore ==
  \/ Execute(Arguments)
  \/ MaybeExecute(Arguments)
  \/ StopExecuting
  \/ ExecutorEmits(ResultSet)
  \/ GraphWrite(VarSet, DataSet)
  \/ GraphWriteEntity(DataSet)
  \/ GraphWriteRef(VarSet, Ids)

SpecCore == InitKind("query") /\ [][NextCore]_vars

\* the operation of a query with observers, executed without variables, whose
\* executor returns one entity that another writer changes
OneEntity == {d \in DataSet : d.id = 1}
OneEntityResults == {r \in ResultSet : r.data \in OneEntity}

NextObservers ==
  \/ Execute({NoVariables})
  \/ StopExecuting
  \/ ExecutorEmits(SyncResults)
  \/ GraphWriteEntity(OneEntity)
  \/ Subscribe
  \/ Unsubscribe
  \/ Fire

SpecObservers == InitKind("query") /\ [][NextObservers]_vars

\* the operation of a query with observers and no other writer, with every
\* pending setTimeout callback run in the end
NextDelivery ==
  \/ Execute({NoVariables})
  \/ StopExecuting
  \/ ExecutorEmits(SyncResults)
  \/ Subscribe
  \/ Unsubscribe
  \/ Fire

SpecDelivery == InitKind("query") /\ [][NextDelivery]_vars /\ WF_vars(Fire)

\* a query on which neither execute nor maybeExecute is ever called
NextPassive ==
  \/ GraphWrite(VarSet, DataSet)
  \/ GraphWriteEntity(DataSet)
  \/ GraphWriteRef(VarSet, Ids)
  \/ Subscribe
  \/ Unsubscribe
  \/ Fire

SpecPassive == InitKind("query") /\ [][NextPassive]_vars

\* a query nobody subscribes to whose executor function may throw
NextThrowing ==
  \/ Execute(Arguments)
  \/ ExecuteThrows(Arguments)
  \/ StopExecuting
  \/ ExecutorEmits(SyncResults)

SpecThrowing == InitKind("query") /\ [][NextThrowing]_vars

\* a mutation nobody subscribes to
SpecMutation == InitKind("mutation") /\ [][NextCore]_vars

(***************************************************************************)
(* The claims.  A call or an executor event is judged by what its handler  *)
(* makes of the operation W in every reachable state.                      *)
(***************************************************************************)
InFlight == executor = "active"

\* the call that left w threw the in-flight message and changed nothing
Refused(w) ==
  /\ w.threw = InFlightMessage
  /\ w.invoked = 0
  /\ w.state = state
  /\ w.graph = graph
  /\ w.watcher = watcher
  /\ w.execution = execution
  /\ w.executor = executor
  /\ w.timers = timers

\* C1: execute or maybeExecute, with or without variables, called while an
\* execution is in flight (started, not completed, not stopped) throws the
\* in-flight message, does not invoke the executor and leaves the operation,
\* the graph and the pending deliveries as they were.
C1_CallInFlightThrows ==
  InFlight =>
    \A argument \in Arguments, script \in SyncScripts :
      /\ Refused(ExecuteOp(W, Default(argument), script))
      /\ \A fault \in BOOLEAN :
           Refused(MaybeExecuteOp(W, Default(argument), fault, script))

C1_Witness ==
  /\ InFlight
  /\ call.op = "maybeExecute"
  /\ call.threw = InFlightMessage
  /\ state.data # NoData

\* C2: once the executor's observable has completed, asynchronously or inside
\* the execute call, a call of execute does not throw and invokes the executor.
C2_CompletedAllowsExecute ==
  [][executor = "completed" /\ call'.op = "execute" =>
       call'.threw = "" /\ call'.invoked = 1]_vars

\* C3: in every reachable state executing = false implies loading = false.
C3_NotExecutingNotLoading == state.executing = FALSE => state.loading = FALSE

C3_Witness ==
  /\ event.type = "complete"
  /\ ~event.hadNext
  /\ state.executing = FALSE
  /\ state.loading = FALSE

\* C4: a result without errors of an execution started by execute(v) leaves the
\* state at loading = false, variables = v, canonical = true, stale = false,
\* errors = [] and data = the projection of the written result.
C4_CleanResultIsCanonical ==
  [][event'.type = "next" /\ event'.result.errors = <<>> =>
       /\ state'.loading = FALSE
       /\ state'.variables = event'.variables
       /\ state'.canonical = TRUE
       /\ state'.stale = FALSE
       /\ state'.errors = <<>>
       /\ state'.data = event'.result.data]_vars

\* the result with errors of an execution with the variables v left w
Quarantined(w, v, result) ==
  /\ w.graph = graph
  /\ w.state.loading = FALSE
  /\ w.state.variables = v
  /\ w.state.canonical = TRUE
  /\ w.state.stale = FALSE
  /\ w.state.errors = result.errors
  /\ w.state.data = result.data

\* C5: a result with errors is not written to the graph (the snapshot is the
\* same before and after) and leaves the state at loading = false,
\* variables = v, canonical = true, stale = false, errors = result.errors and
\* data = result.data; the result arrives in a later turn or inside execute.
C5_ErroredResultNotWritten ==
  \A result \in ResultSet :
    result.errors # <<>> =>
      /\ InFlight =>
           Quarantined(ExecutorEvent(W, NextEvent(result)), execVariables, result)
      /\ ~execution =>
           \A v \in VarSet :
             Quarantined(ExecuteOp(W, v, <<NextEvent(result)>>), v, result)

C5_Witness ==
  /\ event.type = "next"
  /\ event.result.errors # <<>>
  /\ event.variables = 1
  /\ graph.refs[0] # NoRef
  /\ graph.scal[event.result.data.id] # event.result.data.a

\* C6: after a result with errors the store watch is stopped and stays stopped
\* until a result without errors arrives; until then no write to the graph
\* changes the state or schedules a delivery.
C6_QuarantinedUntilCleanResult ==
  [][/\ (event'.type = "next" /\ event'.result.errors # <<>> => ~watcher'.active)
     /\ (state.errors # <<>> /\ ~watcher.active =>
           /\ watcher'.active => event'.hadNext /\ event'.result.errors = <<>>
           /\ call'.op = "none" /\ event'.type = "none" =>
                state' = state /\ timers' = timers)]_vars

\* C7: maybeExecute(v) delegates to execute(v) exactly when the read fails
\* with a partial read error; another error of the read is thrown to the
\* caller and no execution is started.
C7_ExecutesOnPartialReadOnly ==
  [][call'.op = "maybeExecute" /\ ~execution =>
       /\ call'.invoked = 1 <=>
            (~call'.fault /\ ~Read(graph, call'.variables, state.data).ok)
       /\ call'.fault => call'.threw = OtherReadMessage]_vars

\* a write of another value of a at the entity of the data of w reaches the
\* state of w through the store watch
WatchFollows(w) ==
  \A a \in Vals \ {w.state.data.a} :
    LET written == WriteEntity(w.graph, w.state.data.id, a)
    IN Notify([w EXCEPT !.graph = written.graph], w.graph, written.journal).state.data.a = a

C9_MutationRejected ==
  opKind = "mutation" /\ call.op = "constructor" =>
    call.threw = MutationMessage /\ ~watcher.active

\* C10: when execute and maybeExecute are never called an observer is delivered
\* one state, the initial one, and nothing more after a write of the
\* operation's selection at the root.
C10_PassiveSingleEmission ==
  /\ \A o \in 1 .. MaxObservers : nexts[o] <= 1
  /\ delivered.kind = "next" => delivered.value = <<InitialState>>

\* the snapshots and change journals one write of another writer may make of
\* the graph g
Writes(g) ==
  {[graph |-> Write(g, "query", v, d).graph, journal |-> Write(g, "query", v, d).journal] :
     v \in VarSet, d \in DataSet}
  \cup {[graph |-> WriteEntity(g, d.id, d.a).graph, journal |-> WriteEntity(g, d.id, d.a).journal] :
          d \in DataSet}
  \cup {[graph |-> WriteRef(g, v, i).graph, journal |-> WriteRef(g, v, i).journal] :
          v \in VarSet, i \in Ids}

\* the operation after the store has told its watch of the write
AfterWrite(written) == Notify([W EXCEPT !.graph = written.graph], graph, written.journal)

ByWrite == call.op = "none" /\ event.type = "none" /\ delivered.kind = "none"

AfterWriteObserved(written) ==
  Notify([W EXCEPT !.graph = written.graph, !.observers = <<1>>, !.timers = <<>>],
         graph, written.journal)

\* C13: a write of another writer whose change journal does not meet the
\* (entity, storage key) pairs of the selection under the state's variables,
\* such as a write of foo under another argument, changes no state and
\* schedules no delivery; the watch is always the one under the state's
\* variables, so after execute(v2) writes under former variables are silent.
C13_UnwatchedWriteSilent ==
  /\ watcher.active => watcher.variables = state.variables
  /\ \A written \in Writes(graph) :
       written.journal \cap ReadPlan(graph, state.variables, state.data) = {} =>
         /\ AfterWrite(written).state = state
         /\ AfterWrite(written).watcher = watcher
         /\ AfterWrite(written).fatal = ""
         /\ AfterWriteObserved(written).timers = <<>>

C13_Witness ==
  /\ ByWrite
  /\ state.variables = 1
  /\ state.canonical
  /\ state.data # NoData
  /\ watcher.active
  /\ graph.refs[0] # state.data.id

\* C14: stopExecuting while an execution is in flight unsubscribes from the
\* executor, sets loading = false and executing = false and leaves variables,
\* canonical, stale, errors, data, the graph and the store watch (active or
\* stopped) as they were; execute is accepted afterwards.
C14_StopExecutingFrame ==
  InFlight =>
    LET w == StopExecutingOp(W)
    IN /\ w.state = [state EXCEPT !.loading = FALSE, !.executing = FALSE]
       /\ w.graph = graph
       /\ w.watcher = watcher
       /\ w.executor = "none"
       /\ w.fatal = fatal
       /\ w.threw = ""
       /\ \A argument \in Arguments, script \in SyncScripts :
            LET again == ExecuteOp(w, Default(argument), script)
            IN again.threw = "" /\ again.invoked = 1

C14_Witness ==
  /\ call.op = "stopExecuting"
  /\ call.found = "active"
  /\ state.errors # <<>>
  /\ state.canonical
  /\ ~state.loading
  /\ ~state.executing
  /\ ~watcher.active
  /\ ~execution

\* C15: when stopExecuting has returned the operation is subscribed to no
\* executor observable, and stays so until the next execution starts: every
\* result, error or completion that is handled belongs to an execution that
\* was not stopped, so none of the stopped one changes the state or the graph.
C15_StoppedExecutionSilent ==
  /\ call.op = "stopExecuting" => ~execution /\ executor = "none"
  /\ ~execution => executor = "none"
  /\ event.type # "none" => execution

C15_Witness ==
  /\ call.op = "stopExecuting"
  /\ call.found = "active"
  /\ state.canonical
  /\ state.data # NoData
  /\ state.variables = 1
  /\ executor = "none"

\* C16: stopExecuting when no execution is in flight (none was started, it has
\* completed or it was stopped) changes nothing of the operation and schedules
\* no delivery.
C16_IdleStopIsNoOp ==
  ~InFlight =>
    LET w == StopExecutingOp(W)
    IN /\ w.state = state
       /\ w.timers = timers
       /\ w.graph = graph
       /\ w.watcher = watcher

\* one pending call of the error callback for every observer of w
ErrorTimers(w) ==
  [i \in 1 .. Len(w.observers) |-> [kind |-> "error", obs |-> w.observers[i], current |-> TRUE,
                                     state |-> <<>>]]

\* C17: an error event of the executor schedules the error for every
\* subscribed observer, behind the deliveries that are pending and without
\* cancelling them, and changes nothing else: the state, the graph, the watch
\* and the observers are the same and the execution is still in flight; the
\* error arrives in a later turn or inside execute.
C17_ExecutorErrorPropagates ==
  /\ InFlight =>
       LET w == ExecutorEvent(W, ErrorEvent)
       IN /\ w.timers = timers \o ErrorTimers(W)
          /\ w.state = state
          /\ w.graph = graph
          /\ w.watcher = watcher
          /\ w.observers = observers
          /\ w.execution = execution
          /\ w.executor = "active"
  /\ ~execution =>
       \A v \in VarSet :
         LET started == ExecuteOp(W, v, <<>>)
             w == ExecuteOp(W, v, <<ErrorEvent>>)
         IN /\ w.timers = started.timers \o ErrorTimers(W)
            /\ w.state = started.state
            /\ w.observers = observers
            /\ w.execution
            /\ w.executor = "active"

C17_Witness ==
  /\ event.type = "error"
  /\ call.op = "none"
  /\ Len(observers) = 2
  /\ Len(timers) >= 3
  /\ timers[Len(timers)].kind = "error"
  /\ timers[Len(timers) - 1].kind = "error"
  /\ timers[1].kind = "state"
  /\ timers[1].current
  /\ InFlight
  /\ state.loading

\* the pending deliveries of w that will hand a state to an observer
LiveStateTimers(w) ==
  {i \in 1 .. Len(w.timers) : w.timers[i].kind = "state" /\ w.timers[i].current}

DataInGraph ==
  /\ state.data # NoData
  /\ graph.refs[state.variables] = state.data.id
  /\ graph.scal[state.data.id] = state.data.a

\* C19: when the state shows, without errors, the data of the entity foo
\* refers to, a write that points foo at an entity with another id that lacks
\* the selected field a leaves canonical = false, stale = true and the data
\* that was shown; it is no error and no other field changes.
C19_RepointedReferenceIsStale ==
  DataInGraph /\ state.errors = <<>> =>
    \A id \in Ids \ {state.data.id} :
      graph.scal[id] = NoVal =>
        LET w == AfterWrite(WriteRef(graph, state.variables, id))
        IN /\ w.state = [state EXCEPT !.canonical = FALSE, !.stale = TRUE]
           /\ w.fatal = ""
           /\ AfterWriteObserved(WriteRef(graph, state.variables, id)).timers =
                <<[kind |-> "state", obs |-> 1, current |-> TRUE,
                   state |-> <<[state EXCEPT !.canonical = FALSE, !.stale = TRUE]>>]>>

C19_Witness ==
  /\ ByWrite
  /\ state.stale
  /\ state.canonical = FALSE
  /\ state.errors = <<>>
  /\ state.data # NoData
  /\ graph.refs[state.variables] # state.data.id
  /\ graph.scal[graph.refs[state.variables]] = NoVal
  /\ graph.scal[state.data.id] = state.data.a
  /\ watcher.active

\* C20: while the state is stale, with foo referring to another entity than
\* the one shown, a write that changes a at the entity shown leaves stale =
\* true and canonical = false with a refreshed in the data; a write that
\* leaves foo at another entity than the one shown leaves stale = true; and
\* the next result without errors of an execution leaves canonical = true,
\* stale = false and the executor's data.
C20_StaleUntilNextResult ==
  state.stale /\ graph.refs[state.variables] # state.data.id =>
    /\ \A a \in Vals \ {state.data.a} :
         AfterWrite(WriteEntity(graph, state.data.id, a)).state =
           [state EXCEPT !.data.a = a]
    /\ \A written \in Writes(graph) :
         written.graph.refs[state.variables] # state.data.id =>
           AfterWrite(written).state.stale
    /\ InFlight =>
         \A result \in ResultSet :
           result.errors = <<>> =>
             LET w == ExecutorEvent(W, NextEvent(result))
             IN /\ w.state.canonical = TRUE
                /\ w.state.stale = FALSE
                /\ w.state.data = result.data

\* the scripts in which the executor emits no result
ResultlessScripts == {<<>>, <<CompleteEvent>>, <<ErrorEvent>>, <<ErrorEvent, CompleteEvent>>}

C22_LoadingKeepsPreviousResult ==
  ~execution =>
    \A argument \in Arguments :
      LET v == Default(argument)
          w == ExecuteOp(W, v, <<>>)
      IN /\ w.state = [state EXCEPT !.loading = TRUE, !.executing = TRUE]
         /\ w.graph = graph
         /\ w.watcher = watcher
         /\ ExecutorEvent(w, ErrorEvent).state = w.state
         /\ ExecuteOp(W, v, <<ErrorEvent>>).state = w.state
         /\ \A result \in ResultSet :
              /\ ExecutorEvent(w, NextEvent(result)).state.variables = v
              /\ ExecutorEvent(w, NextEvent(result)).state.data = result.data
              /\ ExecuteOp(W, v, <<NextEvent(result)>>).state =
                   ExecutorEvent(w, NextEvent(result)).state

C22_Witness ==
  /\ call.op = "execute"
  /\ call.threw = ""
  /\ call.variables = 0
  /\ event.type = "none"
  /\ state.variables = 1
  /\ state.loading
  /\ state.executing
  /\ state.canonical
  /\ state.errors # <<>>
  /\ state.data # NoData

\* C23: a result without errors of an execution with the variables v is stored
\* under the storage keys of v: a read under v returns it, and after the
\* execution has been stopped maybeExecute(v) shows it with canonical = false
\* and stale = false without invoking the executor.
C23_ResultStoredUnderVariables ==
  InFlight =>
    \A result \in ResultSet :
      result.errors = <<>> =>
        LET w == StopExecutingOp(ExecutorEvent(W, NextEvent(result)))
            again == MaybeExecuteOp(w, execVariables, FALSE, <<>>)
        IN /\ Read(w.graph, execVariables, NoData).ok
           /\ Read(w.graph, execVariables, NoData).data = result.data
           /\ again.threw = ""
           /\ again.invoked = 0
           /\ again.state.variables = execVariables
           /\ again.state.canonical = FALSE
           /\ again.state.stale = FALSE
           /\ again.state.data = result.data

C25_PrimingDeliversOnce ==
  [][~ /\ delivered.kind = "next"
       /\ delivered'.kind = "next"
       /\ delivered'.obs = delivered.obs
       /\ delivered'.value = delivered.value]_vars

\* C26: a state or an error is delivered only to an observer that is
\* subscribed when the delivery is made: an observer that unsubscribed receives
\* nothing more, the deliveries scheduled before it unsubscribed included.
C26_UnsubscribedReceivesNothing ==
  delivered.kind \in {"next", "error"} =>
    \E i \in 1 .. Len(observers) : observers[i] = delivered.obs

\* C27: an observer receives states and errors in the order of the
\* transitions and error events behind them. A pending delivery of the
\* current state to an observer is behind every delivery of an older state to
\* it; a state that is delivered is the current one; and no state is delivered
\* to an observer while an error that occurred before the transition to that
\* state is still to be delivered to it.
C27_DeliveriesFollowEvents ==
  /\ \A i, j \in 1 .. Len(timers) :
       /\ timers[i].kind = "state" /\ timers[i].current
       /\ timers[j].kind = "state" /\ ~timers[j].current
       /\ timers[j].obs = timers[i].obs
       => j < i
  /\ delivered.kind = "next" =>
       /\ delivered.value = <<state>>
       /\ ~ \E i, j \in 1 .. Len(timers) :
              /\ i < j
              /\ timers[i].kind = "error" /\ timers[i].obs = delivered.obs
              /\ timers[j].kind = "state" /\ timers[j].current
              /\ timers[j].obs = delivered.obs

\* C28: when a result without errors of the execution in flight has been
\* written, a read of the selection at the root with the variables of the
\* execution and no previous data is not stale and returns the data of the
\* result, and the entity of the result holds the result's value of a.
C28_WrittenResultReadsBack ==
  InFlight =>
    \A result \in ResultSet :
      result.errors = <<>> =>
        LET w == ExecutorEvent(W, NextEvent(result))
            read == Read(w.graph, execVariables, NoData)
        IN /\ read.ok
           /\ read.stale = FALSE
           /\ read.data = result.data
           /\ w.graph.scal[result.data.id] = result.data.a

C30_StaleIsNotCanonical == state.stale => ~state.canonical

C30_Witness ==
  /\ ByWrite
  /\ state.stale
  /\ ~state.canonical
  /\ state.data # NoData
  /\ state.errors = <<>>
  /\ graph.refs[state.variables] # state.data.id

\* C31: a state handed to an observer's next is the current state of the
\* operation at that moment, and every pending delivery that is still live
\* holds the current state: the delivery of a superseded state hands over
\* nothing.
C31_DeliveredStateIsCurrent ==
  /\ delivered.kind = "next" => delivered.value = <<state>>
  /\ \A i \in 1 .. Len(timers) :
       timers[i].kind = "state" =>
         (timers[i].current <=> timers[i].state = <<state>>)

C31_Witness ==
  /\ delivered.kind = "next"
  /\ delivered.value = <<state>>
  /\ state.canonical
  /\ ~state.loading
  /\ ~state.executing
  /\ nexts[delivered.obs] = 2
  /\ timers = <<>>
  /\ Len(observers) = 1

\* the events an executor may emit
ExecutorEvents == {NextEvent(r) : r \in ResultSet} \cup {ErrorEvent, CompleteEvent}

\* C32: the operation never meets a watch it still holds when it starts one,
\* so the error of _watch is raised by no call, executor event or write; and
\* an executor subscription is live only while the operation holds its
\* handle, a new one being started only when none is held.
C32_OneExecutionOneWatch ==
  /\ fatal # WatchingMessage
  /\ executor = "active" => execution
  /\ ~execution => executor = "none"
  /\ \A argument \in Arguments :
       /\ \A script \in SyncScripts :
            /\ ExecuteOp(W, Default(argument), script).fatal # WatchingMessage
            /\ MaybeExecuteOp(W, Default(argument), FALSE, script).fatal # WatchingMessage
       /\ ExecuteOp(W, Default(argument), <<>>).invoked = 1 => executor = "none"
       /\ MaybeExecuteOp(W, Default(argument), FALSE, <<>>).invoked = 1 => executor = "none"
  /\ StopExecutingOp(W).fatal # WatchingMessage
  /\ StopExecutingOp(W).executor = "none"
  /\ InFlight => \A e \in ExecutorEvents : ExecutorEvent(W, e).fatal # WatchingMessage
  /\ \A written \in Writes(graph) : AfterWrite(written).fatal # WatchingMessage

C32_Witness ==
  /\ event.type = "next"
  /\ event.result.errors = <<>>
  /\ call.op = "none"
  /\ InFlight
  /\ execution
  /\ watcher.active
  /\ watcher.initialData = state.data
  /\ state.canonical
  /\ fatal = ""

\* the store watch of w watches under the variables of the state of w, and
\* no emission has met other variables
WatchUnderStateVariables(w) ==
  /\ w.fatal # VariablesMessage
  /\ w.watcher.active => w.watcher.variables = w.state.variables

\* C33, as stated: the store watch is stopped before state.variables change,
\* in the next callback of execute and in maybeExecute, so that an emission of
\* the watch never meets other variables than its own.
C33_WatchStoppedBeforeVariablesChange ==
  /\ WatchUnderStateVariables(W)
  /\ InFlight /\ execVariables # state.variables => ~StopWatching(W).watcher.active
  /\ ~execution =>
       \A variables \in VarSet :
         LET result == Read(graph, variables, state.data)
         IN result.ok /\ variables # state.variables =>
              ~MaybeExecuteRead(W, variables, result).watcher.active

\* C33, amended: every call and every executor event that changes
\* state.variables leaves the store watch stopped or restarted under the new
\* variables, the next callback of execute by stopping it before the change
\* and maybeExecute by restarting it after the change and before it returns;
\* so the watch is always one under state.variables and no emission of it,
\* inside a call or after a write, meets other variables.
C33_WatchFollowsVariables ==
  /\ WatchUnderStateVariables(W)
  /\ \A argument \in Arguments :
       \A script \in SyncScripts :
         /\ WatchUnderStateVariables(ExecuteOp(W, Default(argument), script))
         /\ WatchUnderStateVariables(MaybeExecuteOp(W, Default(argument), FALSE, script))
  /\ InFlight => \A e \in ExecutorEvents : WatchUnderStateVariables(ExecutorEvent(W, e))
  /\ WatchUnderStateVariables(StopExecutingOp(W))
  /\ \A written \in Writes(graph) : WatchUnderStateVariables(AfterWrite(written))

C33_Witness ==
  /\ ByWrite
  /\ state.variables = 1
  /\ watcher.active
  /\ watcher.variables = 1
  /\ ~watcher.pristine
  /\ ~state.canonical
  /\ state.data # NoData
  /\ fatal = ""

\* C34: the watch that the next callback of execute restarts after it wrote a
\* result without errors changes nothing by itself: the callback leaves
\* canonical = true, stale = false and the data of the result, and schedules
\* one delivery for an observer, that of the result's state.
C34_RestartedWatchIsSilent ==
  InFlight =>
    \A result \in ResultSet :
      result.errors = <<>> =>
        LET w == ExecutorEvent(W, NextEvent(result))
            observed == ExecutorEvent([W EXCEPT !.observers = <<1>>, !.timers = <<>>],
                                      NextEvent(result))
        IN /\ w.state.canonical
           /\ ~w.state.stale
           /\ w.state.data = result.data
           /\ w.watcher.active
           /\ Len(observed.timers) = 1

\* C35: an execution in flight shows executing = true; execute sets loading
\* and executing; every result, the first and the ones after it, leaves
\* loading = false and executing = true; an executor error and a write of
\* another writer change neither; completion and stopExecuting set both to
\* false and change nothing else, so an execution that completes without a
\* result leaves variables, canonical, stale, errors and data as they were.
C35_LoadingAndExecuting ==
  /\ InFlight => state.executing
  /\ state.loading => state.executing
  /\ InFlight =>
       /\ \A first \in ResultSet, second \in SyncResults :
            LET w1 == ExecutorEvent(W, NextEvent(first))
                w2 == ExecutorEvent(w1, NextEvent(second))
            IN /\ ~w1.state.loading /\ w1.state.executing
               /\ ~w2.state.loading /\ w2.state.executing
       /\ ExecutorEvent(W, ErrorEvent).state = state
       /\ ExecutorEvent(W, CompleteEvent).state =
            [state EXCEPT !.loading = FALSE, !.executing = FALSE]
       /\ StopExecutingOp(W).state = [state EXCEPT !.loading = FALSE, !.executing = FALSE]
  /\ \A written \in Writes(graph) :
       /\ AfterWrite(written).state.loading = state.loading
       /\ AfterWrite(written).state.executing = state.executing
  /\ ~execution =>
       \A argument \in Arguments :
         /\ ExecuteOp(W, Default(argument), <<>>).state =
              [state EXCEPT !.loading = TRUE, !.executing = TRUE]
         /\ ExecuteOp(W, Default(argument), <<CompleteEvent>>).state =
              [state EXCEPT !.loading = FALSE, !.executing = FALSE]

C35_Witness ==
  /\ event.type = "next"
  /\ call.op = "none"
  /\ InFlight
  /\ state.executing
  /\ ~state.loading
  /\ state.canonical
  /\ state.data # NoData
  /\ state.data.a = 2
  /\ graph.scal[state.data.id] = 2

\* C36: while an execution is in flight and the state shows its last result,
\* without errors, a write of another value of a at the entity of the data by
\* another writer leaves canonical = false and the data with the written a;
\* the next result without errors is written to the graph and leaves
\* canonical = true, stale = false and the data of that result, with
\* executing still true.
C36_WriteBetweenResults ==
  /\ InFlight
  /\ state.canonical
  /\ state.errors = <<>>
  /\ state.data # NoData
  /\ state.variables = execVariables
  =>
    \A a \in Vals \ {state.data.a} :
      LET written == WriteEntity(graph, state.data.id, a)
          w == AfterWrite([graph |-> written.graph, journal |-> written.journal])
      IN /\ w.state = [state EXCEPT !.canonical = FALSE,
                                    !.data = [id |-> state.data.id, a |-> a]]
         /\ \A result \in ResultSet :
              result.errors = <<>> =>
                LET w2 == ExecutorEvent(w, NextEvent(result))
                IN /\ w2.state.canonical
                   /\ ~w2.state.stale
                   /\ w2.state.data = result.data
                   /\ w2.state.executing
                   /\ ~w2.state.loading
                   /\ Read(w2.graph, execVariables, NoData).data = result.data

\* C37: in every reachable state, when state.errors is not empty no store
\* watch is active and canonical is true.
C37_ErrorsMeanUnwatchedCanonical ==
  state.errors # <<>> => ~watcher.active /\ state.canonical

\* C38: in every reachable state, state.executing is true exactly when a call
\* of execute would throw the in-flight error.
C38_ExecutingTellsInFlight ==
  \A argument \in Arguments :
    state.executing <=> ExecuteOp(W, Default(argument), <<>>).threw = InFlightMessage

\* C39: a call of execute that the executor function left by throwing leaves
\* no execution and neither loading nor executing true, and a later call of
\* execute is accepted.
C39_ThrowingExecutorLeavesNoTrace ==
  call.op = "execute" /\ call.threw = ExecutorThrowsMessage =>
    /\ ~execution
    /\ \A argument \in Arguments : ExecuteOp(W, Default(argument), <<>>).threw = ""
    /\ ~state.loading
    /\ ~state.executing

\* a step that makes a transition of the state: _updateState ran
Transition ==
  \/ state' # state
  \/ /\ Len(timers') > Len(timers)
     /\ timers'[Len(timers')].kind = "state"

\* every subscribed observer was handed the current state last
AllSeen == \A i \in 1 .. Len(observers) : seen[observers[i]]

\* C40: when the pending callbacks are run in the end and from some point on
\* no transition is made, then from some point on every observer that is
\* subscribed was handed, as the last state, the state the operation is in.
C40_FinalStateDelivered == <>[][~Transition]_vars => <>[]AllSeen

C40_Witness ==
  /\ Len(observers) = 2
  /\ AllSeen
  /\ timers = <<>>
  /\ delivered.kind = "next"
  /\ delivered.value = <<state>>
  /\ state.canonical
  /\ ~state.executing

====
